---- MODULE Spec2Model ----
(***************************************************************************)
(* Model of the DEC example scripts:                                       *)
(*   examples/fashion-mnist/fashion-mnist.py                               *)
(*   examples/reuters_filtered/reuters.py                                  *)
(*   examples/reuters21578/reuters.py                                      *)
(*   examples/reuters-10k/test.py                                          *)
(*                                                                         *)
(* Spec        the statement sequence of main(), run after run in one      *)
(*             working directory (the files on disk outlive a run)         *)
(* SpecRun     one run of main(), or a CachedFashionMNIST object built     *)
(*             directly and its methods (__getitem__, __len__) called      *)
(* SpecData    ReutersDataset.__init__ / __len__ / __getitem__             *)
(* SpecTopK    np.argsort(q[:, target_cluster])[-10:]                      *)
(* SpecConf    cluster_accuracy, confusion_matrix, row normalisation       *)
(* SpecSplit   the concatenate / vectorise / split of reuters21578         *)
(* SpecGrid    the cluster grid of fashion-mnist.py, drawn for a given      *)
(*             vector of predictions                                       *)
(*                                                                         *)
(* ptsdae, ptdec, torch, sklearn and numpy are libraries outside the       *)
(* repository: a call into them either returns or raises.                  *)
(*                                                                         *)
(* reuters-10k/test.py holds main() only (no import lines, no class        *)
(* ReutersDataset): running it raises NameError on its first line, before  *)
(* main is defined; its main is never entered.                             *)
(***************************************************************************)
EXTENDS Integers, Sequences, FiniteSets, TLC

\* ------------------------------------------------------------------ bounds
\* number of invocations of a script in the same working directory
MaxRuns == 2

\* dataset indices 0..MaxIndex are requested from CachedFashionMNIST
MaxIndex == 1

\* a ReutersDataset is built from 1..MaxLabels labels
MaxLabels == 2

\* the score matrix q has 0..MaxRows rows
MaxRows == 11

\* matrices of up to FineRows rows take their scores from three values in
\* every combination; longer ones have at most two rows of equal score
FineRows == 4

\* predict returns 1..MaxSamples samples
MaxSamples == 3

\* the train part and the test part of reuters21578 hold 0..MaxDocs items
MaxDocs == 2

\* the cluster grid is drawn for 1..MaxPredicted predicted labels
MaxPredicted == 11

\* label vectors of up to FinePredicted entries take their labels from three
\* clusters, longer ones from two
FinePredicted == 6

\* ------------------------------------------------------------- main(): text
Scripts == {"fashion_mnist", "reuters_filtered", "reuters21578", "reuters10k"}

ReutersScripts == {"reuters_filtered", "reuters21578", "reuters10k"}

\* (mutant) DEC training moved in front of the fine-tuning
FashionBodySwapped ==
    << "writer", "load", "pretrain", "dec", "train", "predict", "accuracy" >>

\* The statements of fashion-mnist.py main up to the testing_mode test.
\* No torch.save appears in this script.
FashionBody ==
    << "writer", "load", "pretrain", "train", "dec", "predict", "accuracy" >>

\* The statements under `if not testing_mode:` of fashion-mnist.py.
FashionPlot == << "confusion", "clusters", "close" >>

\* The statements of the three Reuters mains up to the testing_mode test.
ReutersBody ==
    << "writer", "load", "pretrain", "save_pretrained", "train",
       "save_finetuned", "dec", "save_dec", "predict", "accuracy",
       "soft", "topk" >>

\* The statements under `if not testing_mode:` of the Reuters mains.
ReutersPlot == << "confusion", "close" >>

\* (mutant) writer.close() moved out of the `if not testing_mode:` block
ProgramClosingAlways(s, tm) ==
    IF s = "fashion_mnist"
    THEN FashionBody \o (IF tm THEN << "close" >> ELSE FashionPlot)
    ELSE ReutersBody \o (IF tm THEN << "close" >> ELSE ReutersPlot)

\* main(...) of script s as the sequence of statements it executes when
\* nothing raises.
Program(s, tm) ==
    IF s = "fashion_mnist"
    THEN FashionBody \o (IF tm THEN << >> ELSE FashionPlot)
    ELSE ReutersBody \o (IF tm THEN << >> ELSE ReutersPlot)

\* File names.  A name is <<template, id>>; id is 0 for a fixed name.
PretrainedFile == << "pretrained_model.pth", 0 >>
FinetunedFile == << "finetuned_model.pth", 0 >>
DecFile == << "dec_model.pth", 0 >>

\* plt.savefig('clusters.png')
ClustersFile == << "clusters.png", 0 >>

\* "confusion_%s.png" % confusion_id
ConfusionFile(id) == << "confusion_%s.png", id >>

\* (mutant) the fine-tuned model saved under the pretrained model's name
CheckpointOfCopied(stmt) ==
    CASE stmt = "save_pretrained" -> PretrainedFile
      [] stmt = "save_finetuned" -> PretrainedFile
      [] stmt = "save_dec" -> DecFile

\* The argument of torch.save in a save statement.
CheckpointOf(stmt) ==
    CASE stmt = "save_pretrained" -> PretrainedFile
      [] stmt = "save_finetuned" -> FinetunedFile
      [] stmt = "save_dec" -> DecFile

\* uuid.uuid4().hex: 122 random bits, taken never to repeat.
UuidSpace == 1..(2 * MaxRuns)

Checkpoints == {PretrainedFile, FinetunedFile, DecFile}

ImageFiles == {ClustersFile} \cup {ConfusionFile(i) : i \in UuidSpace}

Files == Checkpoints \cup ImageFiles

Absent == [run |-> 0, complete |-> FALSE]

\* An exception whose class is the library's choice (FileNotFoundError,
\* EOFError, pickle.UnpicklingError, AttributeError, RuntimeError, ...): the
\* classes are not told apart.
LibraryError == "Exception"

\* Exceptions a statement of main can raise: whatever the call raises.
Errors == {LibraryError}

\* The module level of the script runs up to the call of main: test.py
\* starts with @click.command() and imports nothing, so the name click is
\* undefined on line 1; the other three scripts import all they use.
ModuleLoads(s) == s # "reuters10k"

VARIABLES
    run,           \* number of invocations started so far
    script,        \* the script of the current invocation
    testing_mode,  \* --testing-mode of the current invocation
    status,        \* "idle" | "running" | "done" | "error"; "object" where
                   \* no script runs and the class is used directly
    pc,            \* index into Program of the next statement
    log,           \* statements that have returned in this invocation
    raised,        \* <<statement, exception>> that left main, or << >>
    writer,        \* the SummaryWriter: "none" | "open" | "closed"
    stdout,        \* lines printed by this invocation
    disk,          \* file -> [run that wrote it last, write completed]
    writes,        \* every <<run, file>> some run has written
    used_ids,      \* uuid values handed out so far
    finished,      \* runs whose main returned normally
    cuda,          \* --cuda of the invocation, self.cuda of the dataset
    ds_len,        \* CachedFashionMNIST: len(self.ds)
    cache,         \* CachedFashionMNIST: self._cache
    reads,         \* index -> number of reads self.ds[index] that returned
    transfers,     \* index -> number of completed transfers to the device
    requested,     \* indices __getitem__ has been called with
    ret,           \* outcome of the last call of a dataset method
    rd_args,       \* ReutersDataset: the arguments of __init__
    rd,            \* ReutersDataset: the object (features, labels, cuda)
    rd_ret,        \* ReutersDataset: outcome of the last method call
    q,             \* the soft assignments, one row per sample
    target_cluster,\* --target-cluster
    top_state,     \* "init" | "done" | "raised"
    top_indices,   \* np.argsort(q[:, target_cluster])[-10:]
    top_scores,    \* q[top_indices, target_cluster]
    top_printed,   \* the <<Index, Score>> lines printed
    actual,        \* the true label of each sample
    predicted,     \* the cluster predicted for each sample
    conf_state,    \* "init" | "done"
    reassignment,  \* cluster -> label, from cluster_accuracy
    confusion,     \* confusion_matrix(actual, predicted_reassigned)
    normalised_confusion,
    dataset,       \* load_dataset(...): the train and the test items
    split_state,   \* "init" | "done" | "raised"
    ds_train,      \* ReutersDataset(features_train, labels_train, cuda)
    ds_val,        \* ReutersDataset(features_test, labels_test, cuda)
    grid_predicted,\* fashion-mnist: the cluster predicted for each sample
    grid_state,    \* "init" | "done", or where it raised: "fetch" |
                   \* "subplot" | "savefig" | "close"
    grid_calls     \* the plt.subplot / plt.imshow calls made, in order

mainVars == << run, script, testing_mode, status, pc, log, raised, writer,
               stdout, disk, writes, used_ids, finished >>

cacheVars == << cuda, ds_len, cache, reads, transfers, requested, ret >>

dataVars == << rd_args, rd, rd_ret >>

topkVars == << q, target_cluster, top_state, top_indices, top_scores,
               top_printed >>

confVars == << actual, predicted, conf_state, reassignment, confusion,
               normalised_confusion >>

splitVars == << dataset, split_state, ds_train, ds_val >>

gridVars == << grid_predicted, grid_state, grid_calls >>

pureVars == << dataVars, topkVars, confVars, splitVars, gridVars >>

vars == << mainVars, cacheVars, pureVars >>

Prog == Program(script, testing_mode)

\* The statement main is about to execute.
Stmt == IF status = "running" /\ pc <= Len(Prog) THEN Prog[pc] ELSE "none"

\* The statement returns: control moves to the next statement.
Returns(stmt) ==
    /\ pc' = pc + 1
    /\ log' = Append(log, stmt)
    /\ UNCHANGED << status, raised >>

\* (mutant) the exception is caught and main carries on
RaisesSwallowed(stmt) ==
    \E e \in Errors :
        /\ pc' = pc + 1
        /\ raised' = << stmt, e >>
        /\ UNCHANGED << status, log >>

\* The statement raises e: nothing in main catches, e leaves main.
RaisesWith(stmt, e) ==
    /\ status' = "error"
    /\ raised' = << stmt, e >>
    /\ UNCHANGED << pc, log >>

\* The statement raises: nothing in main catches, the exception leaves main.
Raises(stmt) == \E e \in Errors : RaisesWith(stmt, e)

\* ------------------------------------------------------ CachedFashionMNIST
NoEntry == [obj |-> << >>, item |-> -1, img |-> "", label |-> ""]

NoCall == [op |-> "none", index |-> -1, exc |-> "", entry |-> NoEntry, n |-> -1]

\* list(self.ds[index]): a new list object holding the image and the label
\* of item `index`, both in host memory; k numbers the reads of that index.
NewEntry(index, k) ==
    [obj |-> << index, k >>, item |-> index, img |-> "cpu", label |-> "cpu"]

\* (mutant) the cache is never consulted
InCacheNever(c, index) == FALSE

\* index in self._cache
InCache(c, index) == index \in DOMAIN c

\* self._cache[index] = entry
Store(c, index, entry) ==
    [i \in (DOMAIN c) \cup {index} |-> IF i = index THEN entry ELSE c[i]]

\* a counter per index: the indices never counted stand at 0
Count(f, index) == IF index \in DOMAIN f THEN f[index] ELSE 0

\* the dataset object's state: the cache, and per index the reads of the
\* underlying dataset and the transfers to the device made so far
DsState == [cache |-> cache, reads |-> reads, transfers |-> transfers]

\* the call __getitem__(index) as the record kept in ret
GetItemCall(index, exc, entry) ==
    [NoCall EXCEPT !.op = "getitem", !.index = index, !.exc = exc,
                   !.entry = entry]

\* CachedFashionMNIST.__getitem__(index) on a dataset object in state d
\* whose underlying dataset has len items: the outcomes of the call, each
\* the state it leaves and the entry returned or the exception raised
GetItemOn(d, len, cu, index) ==
    IF InCache(d.cache, index)
    THEN {[d |-> d, ret |-> GetItemCall(index, "", d.cache[index])]}
    ELSE IF index >= len
    THEN \* self.ds[index] raises, nothing is stored
         {[d |-> d, ret |-> GetItemCall(index, "IndexError", NoEntry)]}
    ELSE LET k == Count(d.reads, index) + 1
             e == NewEntry(index, k)
             r == [d EXCEPT !.reads = Store(@, index, k)]
         IN IF ~cu
            THEN {[d |-> [r EXCEPT !.cache = Store(@, index, e)],
                   ret |-> GetItemCall(index, "", e)]}
            ELSE LET g == [e EXCEPT !.img = "cuda", !.label = "cuda"]
                 IN { \* both .cuda() calls return
                      [d |-> [r EXCEPT
                                !.cache = Store(@, index, g),
                                !.transfers =
                                    Store(@, index, Count(@, index) + 1)],
                       ret |-> GetItemCall(index, "", g)],
                      \* the first .cuda() raises: the entry stored on
                      \* line 39 stays as it is
                      [d |-> [r EXCEPT !.cache = Store(@, index, e)],
                       ret |-> GetItemCall(index, LibraryError, NoEntry)],
                      \* the second .cuda() raises
                      [d |-> [r EXCEPT
                                !.cache =
                                    Store(@, index, [e EXCEPT !.img = "cuda"])],
                       ret |-> GetItemCall(index, LibraryError, NoEntry)] }

\* [ds[i] ... for i in idxs], from the k-th index on: the calls are made in
\* order and stop at the first that raises; n counts those that returned
RECURSIVE FetchFrom(_, _, _, _, _, _)
FetchFrom(d, last, len, cu, idxs, k) ==
    IF k > Len(idxs)
    THEN {[d |-> d, ret |-> last, n |-> Len(idxs)]}
    ELSE UNION {IF o.ret.exc # ""
                THEN {[d |-> o.d, ret |-> o.ret, n |-> k - 1]}
                ELSE FetchFrom(o.d, o.ret, len, cu, idxs, k + 1) :
                    o \in GetItemOn(d, len, cu, idxs[k])}

\* the indices the calls of a fetch were made with
Fetched(idxs, o) ==
    {idxs[j] : j \in 1..(IF o.n < Len(idxs) THEN o.n + 1 ELSE o.n)}

\* return 128 if self.testing_mode else len(self.ds)
TestingLen == 128

\* the indices __getitem__ is called with
Indices == (0..MaxIndex) \cup {TestingLen}

\* the sizes of the underlying dataset
DsLens == (1..(MaxIndex + 1)) \cup {TestingLen, TestingLen + 1}

\* (mutant) testing_mode ignored
DsLenValueIgnoring == ds_len

\* CachedFashionMNIST.__len__
DsLenValue == IF testing_mode THEN TestingLen ELSE ds_len

\* a CachedFashionMNIST object built directly, outside a run of a script
DatasetBuilt == status = "object"

\* CachedFashionMNIST.__getitem__(index), called directly
GetItem ==
    /\ DatasetBuilt
    /\ \E index \in Indices :
       \E o \in GetItemOn(DsState, ds_len, cuda, index) :
           /\ requested' = requested \cup {index}
           /\ cache' = o.d.cache
           /\ reads' = o.d.reads
           /\ transfers' = o.d.transfers
           /\ ret' = o.ret
    /\ UNCHANGED << mainVars, cuda, ds_len, pureVars >>

\* the call len(ds) as the record kept in ret
LenCall == [NoCall EXCEPT !.op = "len", !.n = DsLenValue]

\* len(ds) on a CachedFashionMNIST, called directly
DsLen ==
    /\ DatasetBuilt
    /\ ret' = LenCall
    /\ UNCHANGED << mainVars, cuda, ds_len, cache, reads, transfers,
                    requested, pureVars >>

\* CachedFashionMNIST.__init__(train, cuda, testing_mode): the option is
\* stored, the underlying dataset has some size, the cache is empty
CacheInit ==
    /\ cuda \in BOOLEAN
    /\ ds_len \in DsLens
    /\ cache = << >>
    /\ reads = << >>
    /\ transfers = << >>
    /\ requested = {}
    /\ ret = NoCall

\* the state of the dataset variables where no CachedFashionMNIST exists
CacheIdle ==
    /\ cuda = FALSE
    /\ ds_len = 0
    /\ cache = << >>
    /\ reads = << >>
    /\ transfers = << >>
    /\ requested = {}
    /\ ret = NoCall

\* the sequences that list every element of S once
Orders(S) ==
    {f \in [1..Cardinality(S) -> S] :
        \A a, b \in 1..Cardinality(S) : f[a] = f[b] => a = b}

\* ---------------------------------------------------------- ReutersDataset
\* A numpy array (or a Python list, always of one dimension): its shape and
\* its elements in row-major order.
Array(shape, data) == [shape |-> shape, data |-> data]

NotOne(d) == d # 1

\* (mutant) squeeze that leaves the array alone
SqueezeKept(a) == a

\* ndarray.squeeze(): every axis of length 1 is removed
Squeeze(a) == Array(SelectSeq(a.shape, NotOne), a.data)

\* len(a): the length of the first axis; an array without axes has none
NpLen(a) ==
    IF a.shape = << >>
    THEN [exc |-> "TypeError", n |-> -1]
    ELSE [exc |-> "", n |-> a.shape[1]]

\* a[idx] for 0 <= idx on an array of at most one axis
NpIndex(a, idx) ==
    IF a.shape = << >> \/ idx >= a.shape[1]
    THEN [exc |-> "IndexError", v |-> -1]
    ELSE [exc |-> "", v |-> a.data[idx + 1]]

\* torch.tensor(value, dtype=...), and .cuda() when asked for
Tensor(value, dtype, device) ==
    [value |-> value, dtype |-> dtype, device |-> device]

NoTensor == Tensor(-1, "", "")

\* the two definitions of the class: reuters_filtered squeezes the labels,
\* reuters21578 stores them as given
Variants == {"reuters_filtered", "reuters21578"}

\* ReutersDataset.__init__(features, labels, cuda)
Construct(a) ==
    [features |-> a.features,
     labels |-> IF a.variant = "reuters_filtered"
                THEN Squeeze(a.labels) ELSE a.labels,
     cuda |-> a.cuda]

FeatureValues == {10, 11}

LabelValues == {0, 1}

\* the label arrays with n labels: (n,), (n, 1) and (1, n) for the pickle,
\* a list of n labels for reuters21578
LabelShapes(variant, n) ==
    IF variant = "reuters_filtered"
    THEN {<< n >>, << n, 1 >>, << 1, n >>}
    ELSE {<< n >>}

\* the number of labels an array holds
NumLabels(a) == Len(a.data)

NoRdCall ==
    [op |-> "none", idx |-> -1, exc |-> "", n |-> -1,
     feature |-> NoTensor, label |-> NoTensor]

DataInit ==
    /\ \E variant \in Variants, n \in 1..MaxLabels, c \in BOOLEAN :
       \E shape \in LabelShapes(variant, n) :
       \E fs \in [1..n -> FeatureValues], ls \in [1..n -> LabelValues] :
           rd_args = [variant |-> variant,
                      features |-> Array(<< n >>, fs),
                      labels |-> Array(shape, ls),
                      cuda |-> c]
    /\ rd = Construct(rd_args)
    /\ rd_ret = NoRdCall

\* the state of the ReutersDataset variables where no such object is modelled
DataIdle ==
    /\ rd_args = [variant |-> "reuters21578",
                  features |-> Array(<< 0 >>, << >>),
                  labels |-> Array(<< 0 >>, << >>),
                  cuda |-> FALSE]
    /\ rd = Construct(rd_args)
    /\ rd_ret = NoRdCall

\* ReutersDataset.__len__
RdLen ==
    /\ rd_ret' = [NoRdCall EXCEPT !.op = "len",
                                  !.exc = NpLen(rd.labels).exc,
                                  !.n = NpLen(rd.labels).n]
    /\ UNCHANGED << rd_args, rd, mainVars, cacheVars, topkVars, confVars,
                    splitVars, gridVars >>

\* ReutersDataset.__getitem__(idx)
RdGetItem ==
    /\ \E idx \in 0..MaxLabels :
        LET f == NpIndex(rd.features, idx)
            l == NpIndex(rd.labels, idx)
            dev == IF rd.cuda THEN "cuda" ELSE "cpu"
            raise(e) == [NoRdCall EXCEPT !.op = "getitem", !.idx = idx,
                                         !.exc = e]
        IN IF f.exc # "" THEN rd_ret' = raise(f.exc)
           ELSE IF l.exc # "" THEN rd_ret' = raise(l.exc)
           ELSE \/ rd_ret' = [NoRdCall EXCEPT
                                !.op = "getitem", !.idx = idx,
                                !.feature = Tensor(f.v, "float", dev),
                                !.label = Tensor(l.v, "long", dev)]
                \/ \* .cuda() raises
                   rd.cuda /\ rd_ret' = raise(LibraryError)
    /\ UNCHANGED << rd_args, rd, mainVars, cacheVars, topkVars, confVars,
                    splitVars, gridVars >>

DataNext ==
    \/ RdLen
    \/ RdGetItem

\* ------------------------------------------------------------ top-k scores
\* [-10:]
TopCount == 10

\* model = DEC(cluster_number=10, ...): q has one column per cluster
NumClusters == 10

\* --target-cluster: every column, counted from the front (0..9) or from the
\* back (-10..-1), and the first value out of range on either side
Targets == (-(NumClusters + 1))..NumClusters

\* q[:, t] raises IndexError unless -10 <= t < 10
ValidTarget(t) == t >= -NumClusters /\ t < NumClusters

\* the column that t selects, counted from 1
ColumnOf(t) == (IF t < 0 THEN t + NumClusters ELSE t) + 1

\* the weights are whole numbers below ScoreModulus
ScoreModulus == MaxRows + 1

\* the row of q of a sample of weight s: column c holds s + c - 1, taken
\* modulo ScoreModulus, so that two rows agree in one column exactly when
\* they agree in all
Row(s) == [c \in 1..NumClusters |-> (s + c - 1) % ScoreModulus]

\* short matrices: every row has one of three weights
FineWeights(n) == [1..n -> 0..2]

\* long matrices: the weights rise or fall with the row number, all
\* different, or with the weight of one row k given to another row j
CoarseWeights(n) ==
    LET bases == {[i \in 1..n |-> i], [i \in 1..n |-> n + 1 - i]}
    IN bases \cup
       {[i \in 1..n |-> IF i = j THEN w[k] ELSE w[i]] :
           w \in bases, j \in 1..n, k \in 1..n}

MatricesOf(n) ==
    {[i \in 1..n |-> Row(w[i])] :
        w \in IF n <= FineRows THEN FineWeights(n) ELSE CoarseWeights(n)}

\* q[:, t]: the column t selects, as a sequence over the rows
Column(m, t) == [i \in 1..Len(m) |-> m[i][ColumnOf(t)]]

Max(a, b) == IF a >= b THEN a ELSE b

\* the 0-based numbers of the rows in `left` in every order in which the
\* scores do not decrease
RECURSIVE SortedOrders(_, _)
SortedOrders(col, left) ==
    IF left = {} THEN {<< >>}
    ELSE LET least == {i \in left : \A j \in left : col[i] <= col[j]}
         IN UNION {{<< i - 1 >> \o rest :
                       rest \in SortedOrders(col, left \ {i})} : i \in least}

\* np.argsort(col): the 0-based row indices in non-decreasing score order.
\* The default sort (quicksort) is not stable: the order of rows of equal
\* score is the build's choice, so every such order is an outcome.
Argsort(col) == SortedOrders(col, 1..Len(col))

\* (mutant) [:10], the first ten instead of the last ten
LastTenFromFront(p) == SubSeq(p, 1, IF Len(p) < TopCount THEN Len(p) ELSE TopCount)

\* p[-10:]
LastTen(p) == SubSeq(p, Max(Len(p) - TopCount, 0) + 1, Len(p))

\* q[top_indices, target_cluster]
Take(m, idxs, t) == [k \in 1..Len(idxs) |-> m[idxs[k] + 1][ColumnOf(t)]]

\* zip(top_indices, top_scores)
Zip(a, b) ==
    [k \in 1..(IF Len(a) < Len(b) THEN Len(a) ELSE Len(b)) |-> << a[k], b[k] >>]

TopKInit ==
    /\ \E n \in 0..MaxRows : q \in MatricesOf(n)
    /\ target_cluster \in Targets
    /\ top_state = "init"
    /\ top_indices = << >>
    /\ top_scores = << >>
    /\ top_printed = << >>

\* the state of the top-k variables where no score matrix is modelled
TopKIdle ==
    /\ q = << >>
    /\ target_cluster = 0
    /\ top_state = "init"
    /\ top_indices = << >>
    /\ top_scores = << >>
    /\ top_printed = << >>

\* top_indices = ...; top_scores = ...; for idx, score in zip(...): print
TopK ==
    /\ top_state = "init"
    /\ IF ~ValidTarget(target_cluster)
       THEN \* q[:, target_cluster] raises IndexError
            /\ top_state' = "raised"
            /\ UNCHANGED << top_indices, top_scores, top_printed >>
       ELSE \E p \in Argsort(Column(q, target_cluster)) :
            LET ti == LastTen(p)
                ts == Take(q, ti, target_cluster)
            IN /\ top_state' = "done"
               /\ top_indices' = ti
               /\ top_scores' = ts
               /\ top_printed' = Zip(ti, ts)
    /\ UNCHANGED << q, target_cluster, mainVars, cacheVars, dataVars, confVars,
                    splitVars, gridVars >>

TopKNext == TopK

\* ------------------------------------------------------- confusion matrix
\* the label and cluster numbers that occur
LabelSpace == 0..2

SetMax(S) == CHOOSE x \in S : \A y \in S : y <= x

Range(f) == {f[i] : i \in DOMAIN f}

\* the elements of a set of numbers in increasing order
Sorted(S) ==
    [k \in 1..Cardinality(S) |->
        CHOOSE x \in S : Cardinality({y \in S : y < x}) = k - 1]

\* ptdec.utils.cluster_accuracy(actual, predicted): with
\* D = max(predicted.max(), actual.max()) + 1, a one-to-one assignment of
\* the clusters 0..D-1 to the labels 0..D-1 under which the most samples
\* agree (which one among equally good ones is the library's choice).
Assignments(act, pred) ==
    LET D == SetMax(Range(act) \cup Range(pred)) + 1
        perms == {f \in [0..(D - 1) -> 0..(D - 1)] :
                     \A a, b \in 0..(D - 1) : f[a] = f[b] => a = b}
        agree(f) == Cardinality({k \in 1..Len(pred) : f[pred[k]] = act[k]})
    IN {f \in perms : \A g \in perms : agree(g) <= agree(f)}

\* [reassignment[item] for item in predicted]
Reassigned(re, pred) == [k \in 1..Len(pred) |-> re[pred[k]]]

\* sklearn.metrics.confusion_matrix(y_true, y_pred): one row and one column
\* per label occurring in y_true or y_pred, in sorted order; entry (i, j)
\* counts the samples of true label i predicted as label j.
ConfusionMatrix(y_true, y_pred) ==
    LET labels == Sorted(Range(y_true) \cup Range(y_pred))
    IN [labels |-> labels,
        counts |->
            [i \in 1..Len(labels) |->
                [j \in 1..Len(labels) |->
                    Cardinality({k \in 1..Len(y_true) :
                        y_true[k] = labels[i] /\ y_pred[k] = labels[j]})]]]

RECURSIVE SeqSum(_)
SeqSum(xs) == IF xs = << >> THEN 0 ELSE Head(xs) + SeqSum(Tail(xs))

\* confusion.sum(axis=1)
RowTotals(c) == [i \in 1..Len(c.counts) |-> SeqSum(c.counts[i])]

\* a float quotient num / den; 0.0 / 0.0 is nan
Quotient(num, den) ==
    IF den = 0 THEN [nan |-> TRUE, num |-> 0, den |-> 1]
    ELSE [nan |-> FALSE, num |-> num, den |-> den]

\* confusion.astype("float") / confusion.sum(axis=1)[:, np.newaxis]
Normalise(c) ==
    [i \in 1..Len(c.counts) |->
        [j \in 1..Len(c.counts) |-> Quotient(c.counts[i][j], RowTotals(c)[i])]]

NoConfusion == [labels |-> << >>, counts |-> << >>]

ConfInit ==
    /\ \E n \in 1..MaxSamples :
           /\ actual \in [1..n -> LabelSpace]
           /\ predicted \in [1..n -> LabelSpace]
    /\ conf_state = "init"
    /\ reassignment = << >>
    /\ confusion = NoConfusion
    /\ normalised_confusion = << >>

\* the state of the confusion variables where no prediction is modelled
ConfIdle ==
    /\ actual = << >>
    /\ predicted = << >>
    /\ conf_state = "init"
    /\ reassignment = << >>
    /\ confusion = NoConfusion
    /\ normalised_confusion = << >>

\* reassignment, accuracy = cluster_accuracy(actual, predicted) and the
\* computation under `if not testing_mode:` up to normalised_confusion
Confuse ==
    /\ conf_state = "init"
    /\ \E re \in Assignments(actual, predicted) :
        LET c == ConfusionMatrix(actual, Reassigned(re, predicted))
        IN /\ reassignment' = re
           /\ confusion' = c
           /\ normalised_confusion' = Normalise(c)
    /\ conf_state' = "done"
    /\ UNCHANGED << actual, predicted, mainVars, cacheVars, dataVars,
                    topkVars, splitVars, gridVars >>

ConfNext == Confuse

\* --------------------------------------------- reuters21578: load and split
\* a text is the set of its terms
Texts == {{"oil"}, {"wheat"}, {"oil", "wheat"}}

Items == [text : Texts, label : LabelValues]

\* [item['text'] for item in dataset['train']] +
\* [item['text'] for item in dataset['test']]
AllTexts(d) ==
    [i \in 1..Len(d.train) |-> d.train[i].text]
        \o [i \in 1..Len(d.test) |-> d.test[i].text]

\* [item['label'] for item in dataset['train']] + [... dataset['test']]
AllLabels(d) ==
    [i \in 1..Len(d.train) |-> d.train[i].label]
        \o [i \in 1..Len(d.test) |-> d.test[i].label]

\* TfidfVectorizer(max_features=2000).fit_transform(texts).toarray(): one
\* row per text, in the order of the texts, one column per term of the
\* corpus; an entry is fixed by whether the text has the term and by the
\* number of texts of the corpus that have it.
Vectorise(texts) ==
    LET vocabulary == UNION Range(texts)
        df(t) == Cardinality({i \in 1..Len(texts) : t \in texts[i]})
    IN [i \in 1..Len(texts) |->
           [t \in vocabulary |->
               IF t \in texts[i] THEN << 1, df(t) >> ELSE << 0, df(t) >>]]

\* (mutant) the split taken at the size of the test part
TrainSizeOfTest(d) == Len(d.test)

\* train_size = len(dataset['train'])
TrainSize(d) == Len(d.train)

\* xs[:n]
Upto(xs, n) == SubSeq(xs, 1, IF n < Len(xs) THEN n ELSE Len(xs))

\* xs[n:]
From(xs, n) == SubSeq(xs, (IF n < Len(xs) THEN n ELSE Len(xs)) + 1, Len(xs))

\* ReutersDataset(features=fs, labels=ls, cuda=c) in reuters21578
NewReutersDataset(fs, ls, c) ==
    Construct([variant |-> "reuters21578",
               features |-> Array(<< Len(fs) >>, fs),
               labels |-> Array(<< Len(ls) >>, ls),
               cuda |-> c])

NoDataset == NewReutersDataset(<< >>, << >>, FALSE)

SeqsUpTo(S, n) == UNION {[1..k -> S] : k \in 0..n}

SplitInit ==
    /\ \E tr \in SeqsUpTo(Items, MaxDocs), te \in SeqsUpTo(Items, MaxDocs) :
           dataset = [train |-> tr, test |-> te]
    /\ split_state = "init"
    /\ ds_train = NoDataset
    /\ ds_val = NoDataset

\* the state of the split variables where no loading is modelled
SplitIdle ==
    /\ dataset = [train |-> << >>, test |-> << >>]
    /\ split_state = "init"
    /\ ds_train = NoDataset
    /\ ds_val = NoDataset

\* lines 81-98 of reuters21578/reuters.py
LoadAndSplit ==
    /\ split_state = "init"
    /\ LET texts == AllTexts(dataset)
           labels == AllLabels(dataset)
       IN IF texts = << >>
          THEN \* fit_transform raises ValueError: empty vocabulary
               /\ split_state' = "raised"
               /\ UNCHANGED << ds_train, ds_val >>
          ELSE LET features == Vectorise(texts)
                   train_size == TrainSize(dataset)
               IN /\ split_state' = "done"
                  /\ ds_train' = NewReutersDataset(Upto(features, train_size),
                                                   Upto(labels, train_size),
                                                   cuda)
                  /\ ds_val' = NewReutersDataset(From(features, train_size),
                                                 From(labels, train_size),
                                                 cuda)
    /\ UNCHANGED << dataset, mainVars, cacheVars, dataVars, topkVars,
                    confVars, gridVars >>

SplitNext == LoadAndSplit

\* ------------------------------------------ fashion-mnist: cluster grid
\* for cluster_id in range(10)
GridClusters == 10

\* if len(cluster_indices) > 10: cluster_indices = cluster_indices[:10]
MaxPerCluster == 10

\* plt.subplot(10, 10, ...)
GridRows == 10

GridCols == 10

\* cluster_id * 10 + idx + 1
PositionStride == 10

\* the clusters the predictions are drawn from
FineLabels == {0, 4, 9}

CoarseLabels == {0, 9}

\* np.where(pred == c)[0]: the 0-based indices i with pred[i] = c, increasing
RECURSIVE WhereFrom(_, _, _)
WhereFrom(pred, c, i) ==
    IF i > Len(pred) THEN << >>
    ELSE (IF pred[i] = c THEN << i - 1 >> ELSE << >>)
             \o WhereFrom(pred, c, i + 1)

Where(pred, c) == WhereFrom(pred, c, 1)

\* (mutant) the members of a cluster are not cut to ten
FirstTenUncut(xs) == xs

\* if len(cluster_indices) > 10: cluster_indices = cluster_indices[:10]
FirstTen(xs) ==
    IF Len(xs) > MaxPerCluster THEN SubSeq(xs, 1, MaxPerCluster) ELSE xs

\* for idx, image in enumerate(cluster_images):
\*     plt.subplot(10, 10, cluster_id * 10 + idx + 1); plt.imshow(image)
\* image is that of dataset index cluster_indices[idx]
ClusterCalls(pred, c) ==
    LET cluster_indices == FirstTen(Where(pred, c))
    IN [k \in 1..Len(cluster_indices) |->
           [pos |-> c * PositionStride + (k - 1) + 1,
            image |-> cluster_indices[k],
            cluster |-> c]]

\* the calls of the loop over cluster_id, from cluster c on
RECURSIVE CallsFrom(_, _)
CallsFrom(pred, c) ==
    IF c >= GridClusters THEN << >>
    ELSE ClusterCalls(pred, c) \o CallsFrom(pred, c + 1)

\* plt.subplot(rows, cols, pos) raises ValueError unless 1 <= pos <= rows*cols
ValidPosition(pos) == pos >= 1 /\ pos <= GridRows * GridCols

GridInit ==
    /\ \E n \in 1..MaxPredicted :
           grid_predicted \in
               [1..n -> IF n <= FinePredicted THEN FineLabels ELSE CoarseLabels]
    /\ grid_state = "init"
    /\ grid_calls = << >>

\* the state of the grid variables where no grid is modelled
GridIdle ==
    /\ grid_predicted = << >>
    /\ grid_state = "init"
    /\ grid_calls = << >>

\* main of fashion-mnist.py without testing_mode, about to execute line 170:
\* the statements before it have returned, the confusion image is written
GridMainInit ==
    /\ run = 1
    /\ script = "fashion_mnist"
    /\ testing_mode = FALSE
    /\ status = "running"
    /\ pc = Len(FashionBody) + 2
    /\ log = FashionBody \o << "confusion" >>
    /\ raised = << >>
    /\ writer = "open"
    /\ stdout = << "Pretraining stage.", "Training stage.", "DEC stage.",
                   "Final DEC accuracy", "Writing out confusion diagram" >>
    /\ disk = [f \in Files |->
                  IF f = ConfusionFile(1)
                  THEN [run |-> 1, complete |-> TRUE] ELSE Absent]
    /\ writes = {<< 1, ConfusionFile(1) >>}
    /\ used_ids = {1}
    /\ finished = {}

\* the cache after every item 0..n-1 has been fetched once
FullCache(n, cu) ==
    [cache |-> [i \in 0..(n - 1) |->
                   [NewEntry(i, 1) EXCEPT
                       !.img = IF cu THEN "cuda" ELSE "cpu",
                       !.label = IF cu THEN "cuda" ELSE "cpu"]],
     reads |-> [i \in 0..(n - 1) |-> 1],
     transfers |-> IF cu THEN [i \in 0..(n - 1) |-> 1] ELSE << >>]

\* ds_train when the grid is drawn: predicted has one entry per item of
\* ds_train, and the calls before (ae.pretrain ... predict) have fetched
\* every item; the last call made on ds_train was a __getitem__ of predict,
\* served from the cache, for the index its loader asked for last
GridCacheInit ==
    /\ cuda \in BOOLEAN
    /\ ds_len = Len(grid_predicted)
    /\ cache = FullCache(ds_len, cuda).cache
    /\ reads = FullCache(ds_len, cuda).reads
    /\ transfers = FullCache(ds_len, cuda).transfers
    /\ requested = 0..(ds_len - 1)
    /\ \E i \in 0..(ds_len - 1) : ret = GetItemCall(i, "", cache[i])

\* the file f is written by this run, completely or in part
WriteFile(f, complete) ==
    /\ disk' = [disk EXCEPT ![f] = [run |-> run, complete |-> complete]]
    /\ writes' = writes \cup {<< run, f >>}

\* lines 170-184 of fashion-mnist.py for the predictions grid_predicted.
\* Per cluster the images are fetched from ds_train first (line 176), then
\* placed; the loop stops at the first fetch that raises and at the first
\* subplot call whose position is outside the grid.  plt.savefig writes
\* clusters.png and can fail before or while writing; plt.close() follows it.
DrawGrid ==
    /\ Stmt = "clusters"
    /\ grid_state = "init"
    /\ \E calls \in {CallsFrom(grid_predicted, 0)} :
       LET bad == {k \in 1..Len(calls) : ~ValidPosition(calls[k].pos)}
           firstBad == CHOOSE k \in bad : \A j \in bad : k <= j
           lastCluster ==
               IF bad = {} THEN GridClusters ELSE calls[firstBad].cluster
           nf == Cardinality({k \in 1..Len(calls) :
                                  calls[k].cluster <= lastCluster})
       IN \E images \in {[k \in 1..nf |-> calls[k].image]} :
          \E o \in FetchFrom(DsState, ret, ds_len, cuda, images, 1) :
           /\ cache' = o.d.cache
           /\ reads' = o.d.reads
           /\ transfers' = o.d.transfers
           /\ requested' = requested \cup Fetched(images, o)
           /\ ret' = o.ret
           /\ IF o.n < nf
              THEN \* ds_train[i] raised within cluster calls[o.n + 1].cluster
                   /\ grid_state' = "fetch"
                   /\ grid_calls' =
                          SubSeq(calls, 1,
                                 Cardinality({k \in 1..Len(calls) :
                                     calls[k].cluster
                                         < calls[o.n + 1].cluster}))
                   /\ RaisesWith("clusters", o.ret.exc)
                   /\ UNCHANGED << disk, writes >>
              ELSE IF bad # {}
              THEN /\ grid_state' = "subplot"
                   /\ grid_calls' = SubSeq(calls, 1, firstBad - 1)
                   /\ RaisesWith("clusters", "ValueError")
                   /\ UNCHANGED << disk, writes >>
              ELSE /\ grid_calls' = calls
                   /\ \/ /\ grid_state' = "done"
                         /\ Returns("clusters")
                         /\ WriteFile(ClustersFile, TRUE)
                      \/ \* plt.savefig raises
                         /\ grid_state' = "savefig"
                         /\ Raises("clusters")
                         /\ \/ UNCHANGED << disk, writes >>
                            \/ WriteFile(ClustersFile, FALSE)
                      \/ \* plt.close() raises
                         /\ grid_state' = "close"
                         /\ Raises("clusters")
                         /\ WriteFile(ClustersFile, TRUE)
    /\ UNCHANGED << run, script, testing_mode, writer, stdout, used_ids,
                    finished, cuda, ds_len, grid_predicted >>
    /\ UNCHANGED << dataVars, topkVars, confVars, splitVars >>

GridNext == DrawGrid

\* ------------------------------------------------------------------ main()
MainInit ==
    /\ run = 0
    /\ script = "fashion_mnist"
    /\ testing_mode = FALSE
    /\ status = "idle"
    /\ pc = 0
    /\ log = << >>
    /\ raised = << >>
    /\ writer = "none"
    /\ stdout = << >>
    /\ disk = [f \in Files |-> Absent]
    /\ writes = {}
    /\ used_ids = {}
    /\ finished = {}

\* python <script> --cuda <c> --testing-mode <tm>: a new process (no
\* dataset object yet), the module level of the script, the entry into main
Invoke ==
    /\ status \in {"idle", "done", "error"}
    /\ run < MaxRuns
    /\ run' = run + 1
    /\ \E s \in Scripts : script' = s
    /\ \E tm \in BOOLEAN : testing_mode' = tm
    /\ IF ModuleLoads(script')
       THEN \* main is entered with its options
            /\ status' = "running"
            /\ pc' = 1
            /\ raised' = << >>
            /\ \E c \in BOOLEAN : cuda' = c
       ELSE \* NameError at module level: main is never called
            /\ status' = "error"
            /\ pc' = 0
            /\ raised' = << "module", "NameError" >>
            /\ cuda' = FALSE
    /\ log' = << >>
    /\ writer' = "none"
    /\ stdout' = << >>
    /\ ds_len' = 0
    /\ cache' = << >>
    /\ reads' = << >>
    /\ transfers' = << >>
    /\ requested' = {}
    /\ ret' = NoCall
    /\ UNCHANGED << disk, writes, used_ids, finished, pureVars >>

\* writer = SummaryWriter()
CreateWriter ==
    /\ Stmt = "writer"
    /\ \/ Returns("writer") /\ writer' = "open"
       \/ Raises("writer") /\ UNCHANGED writer
    /\ UNCHANGED << run, script, testing_mode, stdout, disk, writes,
                    used_ids, finished >>
    /\ UNCHANGED << cacheVars, pureVars >>

\* the calls of fashion-mnist.py that are handed ds_train: ae.pretrain,
\* ae.train, train, predict
UsesTrainSet(stmt) ==
    script = "fashion_mnist" /\ stmt \in {"pretrain", "train", "dec", "predict"}

\* A library call that is handed ds_train: its DataLoader takes len(ds_train)
\* and then ds_train[i] for every i below it, in an order of its choice.
\* The call returns once every item has been fetched (a later pass finds
\* them in the cache); an exception of __getitem__ leaves the call as it is,
\* and the library can raise by itself before, between and after the calls.
\* Of the indices below len(ds_train) only those of Indices are followed;
\* when len(ds_train) exceeds the size of the underlying dataset some index
\* raises IndexError.
DatasetPass(stmt) ==
    \/ /\ Raises(stmt)
       /\ UNCHANGED << cache, reads, transfers, requested, ret >>
    \/ \E asked \in {{i \in Indices : i < DsLenValue}} :
       \E S \in SUBSET asked :
       \E idxs \in Orders(S) :
       \E o \in FetchFrom(DsState, LenCall, ds_len, cuda, idxs, 1) :
           /\ cache' = o.d.cache
           /\ reads' = o.d.reads
           /\ transfers' = o.d.transfers
           /\ requested' = requested \cup Fetched(idxs, o)
           /\ ret' = o.ret
           /\ IF o.n < Len(idxs)
              THEN RaisesWith(stmt, o.ret.exc)
              ELSE \/ Raises(stmt)
                   \/ DsLenValue > ds_len /\ RaisesWith(stmt, "IndexError")
                   \/ S = asked /\ DsLenValue <= ds_len /\ Returns(stmt)

\* A statement that calls into a library and prints `before` first and
\* `after` once the call has returned.
LibraryCall(stmt, before, after) ==
    /\ Stmt = stmt
    /\ IF UsesTrainSet(stmt)
       THEN DatasetPass(stmt)
       ELSE /\ Returns(stmt) \/ Raises(stmt)
            /\ UNCHANGED << cache, reads, transfers, requested, ret >>
    /\ stdout' = IF status' = "error" THEN stdout \o before
                 ELSE stdout \o before \o after
    /\ UNCHANGED << run, script, testing_mode, writer, disk, writes,
                    used_ids, finished, cuda, ds_len >>
    /\ UNCHANGED pureVars

\* dataset loading, ds_train / ds_val, StackedDenoisingAutoEncoder(...).
\* In fashion-mnist.py ds_train = CachedFashionMNIST(train=True, cuda=cuda,
\* testing_mode=testing_mode) is built here (ds_val, a second object of the
\* class, is not followed).
LoadData ==
    /\ Stmt = "load"
    /\ \/ /\ Returns("load") \/ Raises("load")
          /\ script = "fashion_mnist"
          /\ \E n \in DsLens : ds_len' = n
          /\ cache' = << >>
          /\ reads' = << >>
          /\ transfers' = << >>
          /\ requested' = {}
          /\ ret' = NoCall
       \/ /\ IF script = "fashion_mnist"
             THEN Raises("load") ELSE Returns("load") \/ Raises("load")
          /\ UNCHANGED << ds_len, cache, reads, transfers, requested, ret >>
    /\ UNCHANGED << run, script, testing_mode, writer, stdout, disk, writes,
                    used_ids, finished, cuda >>
    /\ UNCHANGED pureVars

\* print("Pretraining stage."); ae.pretrain(...)
Pretrain == LibraryCall("pretrain", << "Pretraining stage." >>, << >>)

\* print("Training stage."); ae.train(...)
Finetune == LibraryCall("train", << "Training stage." >>, << >>)

\* print("DEC stage."); model = DEC(...); train(...)
DecTrain == LibraryCall("dec", << "DEC stage." >>, << >>)

\* predicted, actual = predict(...)
Predict == LibraryCall("predict", << >>, << >>)

\* reassignment, accuracy = cluster_accuracy(actual, predicted); print(...)
ClusterAccuracy == LibraryCall("accuracy", << >>, << "Final DEC accuracy" >>)

\* model.eval(); q = model(ds.features)
SoftAssign == LibraryCall("soft", << >>, << >>)

\* top_indices = np.argsort(...)[-10:]; the prints of the top 10
TopKStmt == LibraryCall("topk", << >>, << "Top 10 scoring elements" >>)

\* torch.save(state_dict, name): on an exception the file may have been
\* opened for writing already.
SaveCheckpoint ==
    /\ Stmt \in {"save_pretrained", "save_finetuned", "save_dec"}
    /\ LET f == CheckpointOf(Stmt)
       IN \/ /\ Returns(Stmt)
             /\ disk' = [disk EXCEPT ![f] = [run |-> run, complete |-> TRUE]]
             /\ writes' = writes \cup {<< run, f >>}
          \/ /\ Raises(Stmt)
             /\ \/ UNCHANGED << disk, writes >>
                \/ /\ disk' = [disk EXCEPT
                                 ![f] = [run |-> run, complete |-> FALSE]]
                   /\ writes' = writes \cup {<< run, f >>}
    /\ UNCHANGED << run, script, testing_mode, writer, stdout, used_ids,
                    finished >>
    /\ UNCHANGED << cacheVars, pureVars >>

\* confusion_matrix, normalisation, confusion_id = uuid.uuid4().hex,
\* savefig("confusion_%s.png" % confusion_id), (plt.close(),) print.
\* An exception can leave the statement before the id is drawn, before the
\* file is opened, while it is written, or after it is written.
PlotConfusion ==
    /\ Stmt = "confusion"
    /\ \/ \E id \in UuidSpace \ used_ids :
             /\ Returns("confusion")
             /\ used_ids' = used_ids \cup {id}
             /\ WriteFile(ConfusionFile(id), TRUE)
             /\ stdout' = Append(stdout, "Writing out confusion diagram")
       \/ /\ Raises("confusion")
          /\ UNCHANGED << disk, writes, used_ids, stdout >>
       \/ \E id \in UuidSpace \ used_ids :
             /\ Raises("confusion")
             /\ used_ids' = used_ids \cup {id}
             /\ \/ UNCHANGED << disk, writes >>
                \/ WriteFile(ConfusionFile(id), FALSE)
                \/ WriteFile(ConfusionFile(id), TRUE)
             /\ UNCHANGED stdout
    /\ UNCHANGED << run, script, testing_mode, writer, finished >>
    /\ UNCHANGED << cacheVars, pureVars >>

\* The 10 x 10 grid of cluster members and plt.savefig('clusters.png'),
\* lines 170-184 of fashion-mnist.py, for predictions main does not show.
\* Of the indices followed here, those below 10 are among the first ten of
\* their cluster whatever the predictions are, so ds_train[i] is called for
\* each; the others may be left out; the order of the calls is that of the
\* clusters.  An exception can leave the statement after any of the calls,
\* and around the writing of the file as in PlotConfusion.
PlotClusters ==
    /\ Stmt = "clusters"
    /\ LET items == {i \in Indices : i < ds_len}
           always == {i \in items : i < MaxPerCluster}
       IN \E S \in SUBSET items :
          \E idxs \in Orders(S) :
          \E o \in FetchFrom(DsState, ret, ds_len, cuda, idxs, 1) :
              /\ cache' = o.d.cache
              /\ reads' = o.d.reads
              /\ transfers' = o.d.transfers
              /\ requested' = requested \cup Fetched(idxs, o)
              /\ ret' = o.ret
              /\ IF o.n < Len(idxs)
                 THEN /\ RaisesWith("clusters", o.ret.exc)
                      /\ UNCHANGED << disk, writes >>
                 ELSE \/ /\ Raises("clusters")
                         /\ UNCHANGED << disk, writes >>
                      \/ /\ always \subseteq S
                         /\ \/ /\ Returns("clusters")
                               /\ WriteFile(ClustersFile, TRUE)
                            \/ /\ Raises("clusters")
                               /\ \/ WriteFile(ClustersFile, FALSE)
                                  \/ WriteFile(ClustersFile, TRUE)
    /\ UNCHANGED << run, script, testing_mode, writer, stdout, used_ids,
                    finished, cuda, ds_len >>
    /\ UNCHANGED pureVars

\* writer.close()
CloseWriter ==
    /\ Stmt = "close"
    /\ \/ Returns("close") /\ writer' = "closed"
       \/ Raises("close") /\ UNCHANGED writer
    /\ UNCHANGED << run, script, testing_mode, stdout, disk, writes,
                    used_ids, finished >>
    /\ UNCHANGED << cacheVars, pureVars >>

\* main falls off its last statement
Return ==
    /\ status = "running"
    /\ pc = Len(Prog) + 1
    /\ status' = "done"
    /\ finished' = finished \cup {run}
    /\ UNCHANGED << run, script, testing_mode, pc, log, raised, writer,
                    stdout, disk, writes, used_ids >>
    /\ UNCHANGED << cacheVars, pureVars >>

Init ==
    MainInit /\ CacheIdle /\ DataIdle /\ TopKIdle /\ ConfIdle /\ SplitIdle
        /\ GridIdle

Next ==
    \/ Invoke
    \/ CreateWriter
    \/ LoadData
    \/ Pretrain
    \/ SaveCheckpoint
    \/ Finetune
    \/ DecTrain
    \/ Predict
    \/ ClusterAccuracy
    \/ SoftAssign
    \/ TopKStmt
    \/ PlotConfusion
    \/ PlotClusters
    \/ CloseWriter
    \/ Return

Spec == Init /\ [][Next]_vars

\* no script runs: a CachedFashionMNIST object has been built directly
ObjectInit ==
    /\ run = 0
    /\ script = "fashion_mnist"
    /\ testing_mode \in BOOLEAN
    /\ status = "object"
    /\ pc = 0
    /\ log = << >>
    /\ raised = << >>
    /\ writer = "none"
    /\ stdout = << >>
    /\ disk = [f \in Files |-> Absent]
    /\ writes = {}
    /\ used_ids = {}
    /\ finished = {}
    /\ CacheInit

\* One invocation of a script, or else a CachedFashionMNIST object built
\* directly whose methods are called in any order.
RunInit ==
    /\ (MainInit /\ CacheIdle) \/ ObjectInit
    /\ DataIdle
    /\ TopKIdle
    /\ ConfIdle
    /\ SplitIdle
    /\ GridIdle

InvokeOnce == run = 0 /\ Invoke

RunNext ==
    \/ InvokeOnce
    \/ CreateWriter
    \/ LoadData
    \/ Pretrain
    \/ SaveCheckpoint
    \/ Finetune
    \/ DecTrain
    \/ Predict
    \/ ClusterAccuracy
    \/ SoftAssign
    \/ TopKStmt
    \/ PlotConfusion
    \/ PlotClusters
    \/ CloseWriter
    \/ Return
    \/ GetItem
    \/ DsLen

SpecRun == RunInit /\ [][RunNext]_vars

\* A ReutersDataset object and the calls of its methods.
DataSpecInit ==
    MainInit /\ CacheIdle /\ DataInit /\ TopKIdle /\ ConfIdle /\ SplitIdle
        /\ GridIdle

SpecData == DataSpecInit /\ [][DataNext]_vars

\* The top-10 selection applied to a score matrix.
TopKSpecInit ==
    MainInit /\ CacheIdle /\ DataIdle /\ TopKInit /\ ConfIdle /\ SplitIdle
        /\ GridIdle

SpecTopK == TopKSpecInit /\ [][TopKNext]_vars

\* cluster_accuracy, confusion_matrix and the normalisation applied to the
\* outcome of predict.
ConfSpecInit ==
    MainInit /\ CacheIdle /\ DataIdle /\ TopKIdle /\ ConfInit /\ SplitIdle
        /\ GridIdle

SpecConf == ConfSpecInit /\ [][ConfNext]_vars

\* The loading of reuters21578: concatenate, vectorise, split, for either
\* value of --cuda.
SplitSpecInit ==
    /\ MainInit
    /\ cuda \in BOOLEAN
    /\ ds_len = 0
    /\ cache = << >>
    /\ reads = << >>
    /\ transfers = << >>
    /\ requested = {}
    /\ ret = NoCall
    /\ DataIdle
    /\ TopKIdle
    /\ ConfIdle
    /\ SplitInit
    /\ GridIdle

SpecSplit == SplitSpecInit /\ [][SplitNext]_vars

\* The cluster grid of fashion-mnist.py drawn for a vector of predictions.
GridSpecInit ==
    GridMainInit /\ GridInit /\ GridCacheInit /\ DataIdle /\ TopKIdle
        /\ ConfIdle /\ SplitIdle

SpecGrid == GridSpecInit /\ [][GridNext]_vars

\* ------------------------------------------------------------------ C1..C4
StageOrder == << "pretrain", "train", "dec", "predict", "accuracy" >>

StageSet == {StageOrder[i] : i \in 1..Len(StageOrder)}

IsStage(s) == s \in StageSet

\* the stages that have returned in this invocation, in the order they did
StagesReturned == SelectSeq(log, IsStage)

\* the files a statement writes
FilesOf(stmt) ==
    CASE stmt \in {"save_pretrained", "save_finetuned", "save_dec"} ->
             {CheckpointOf(stmt)}
      [] stmt = "confusion" -> {ConfusionFile(i) : i \in UuidSpace}
      [] stmt = "clusters" -> {ClustersFile}
      [] OTHER -> {}

\* the files this invocation has written
WrittenNow == {f \in Files : << run, f >> \in writes}

InLog(stmt) == \E i \in 1..Len(log) : log[i] = stmt

\* stmt has been started: it returned, or it is the statement that raised
Started(stmt) == InLog(stmt) \/ (raised # << >> /\ raised[1] = stmt)

\* C1: in every script's main the stages run one after another in the order
\* pretrain, train, DEC train, predict, cluster accuracy: the stages that
\* have returned are an initial part of that order (each once, none before
\* its predecessor returned), a stage that raised is the one next in the
\* order, and a main that returns has run all five.
C1_StagesInOrder ==
    LET n == Len(StagesReturned)
    IN /\ n <= Len(StageOrder)
       /\ StagesReturned = SubSeq(StageOrder, 1, n)
       /\ (raised # << >> /\ IsStage(raised[1])) =>
              (n < Len(StageOrder) /\ raised[1] = StageOrder[n + 1])
       /\ status = "done" => StagesReturned = StageOrder

C1_Witness ==
    /\ status = "done"
    /\ script = "reuters21578"
    /\ StagesReturned = StageOrder

\* the checkpoints of this invocation are complete on disk
CheckpointsSaved ==
    \A f \in Checkpoints : disk[f] = [run |-> run, complete |-> TRUE]

\* each checkpoint is written after its own stage returned and before the
\* next stage starts
CheckpointsInOrder ==
    /\ PretrainedFile \in WrittenNow => InLog("pretrain")
    /\ FinetunedFile \in WrittenNow => InLog("train")
    /\ DecFile \in WrittenNow => InLog("dec")
    /\ Started("train") => InLog("save_pretrained")
    /\ Started("dec") => InLog("save_finetuned")
    /\ Started("predict") => InLog("save_dec")

\* C2 as stated: a run of any script that returns normally has persisted
\* the three checkpoints, each between its stage and the next.
C2_Original ==
    /\ status = "done" => CheckpointsSaved
    /\ status \in {"running", "done", "error"} => CheckpointsInOrder

\* C2 amended: a run of a Reuters script that returns normally has
\* persisted the three checkpoints, each written after its own stage
\* returned and before the next stage starts; fashion-mnist.py writes no
\* checkpoint, and reuters-10k/test.py, which never gets as far as main,
\* writes no file and never returns normally.
C2_ReutersCheckpoints ==
    /\ (status = "done" /\ script \in ReutersScripts) => CheckpointsSaved
    /\ (status \in {"running", "done", "error"} /\ script \in ReutersScripts)
           => CheckpointsInOrder
    /\ (status \in {"running", "done", "error"} /\ script = "fashion_mnist")
           => WrittenNow \cap Checkpoints = {}
    /\ (status \in {"running", "done", "error"} /\ script = "reuters10k")
           => (status = "error" /\ WrittenNow = {})

C2_Witness ==
    /\ status = "done"
    /\ script = "reuters_filtered"
    /\ CheckpointsSaved
    /\ run = 2

\* the state of an invocation that an exception has left
ErrorState ==
    IF ModuleLoads(script)
    THEN /\ pc \in 1..Len(Prog)
         /\ raised[1] = Prog[pc]
         /\ raised[2] \in Errors \cup {"IndexError"}
         /\ log = SubSeq(Prog, 1, pc - 1)
         /\ \A f \in WrittenNow : \E i \in 1..pc : f \in FilesOf(Prog[i])
         /\ \A i \in 1..(pc - 1) :
                Prog[i] \in {"save_pretrained", "save_finetuned", "save_dec"} =>
                    disk[CheckpointOf(Prog[i])] = [run |-> run, complete |-> TRUE]
    ELSE \* the exception of the module level: no statement of main has run
         /\ raised = << "module", "NameError" >>
         /\ log = << >>
         /\ WrittenNow = {}

\* C3: an exception raised by a statement leaves main as it is: the
\* statements before it ran once each, none after it runs, no file of a
\* later statement is written, the checkpoints of the earlier statements
\* stay on disk, and from then on this invocation does nothing more.
C3_ErrorPropagates ==
    /\ [](raised # << >> <=> status = "error")
    /\ [](status = "error" => ErrorState)
    /\ [][status = "error" =>
             (run' = run + 1 /\ UNCHANGED << disk, writes >>)]_vars

C3_Witness ==
    /\ status = "error"
    /\ raised[1] = "dec"
    /\ disk[FinetunedFile] = [run |-> run, complete |-> TRUE]
    /\ disk[DecFile] = Absent

\* C4 as stated: two runs that return normally never write the same image
\* file name.
C4_Original ==
    \A r1, r2 \in finished :
        r1 # r2 =>
            ~ \E f \in ImageFiles : << r1, f >> \in writes /\ << r2, f >> \in writes

\* ------------------------------------------------------------------ C5, C7
C5_CacheState ==
    /\ DOMAIN cache = {i \in requested : i < ds_len}
    /\ \A i \in Indices \cup DOMAIN reads \cup DOMAIN transfers :
           /\ Count(reads, i) <= 1
           /\ Count(transfers, i) <= 1
           /\ Count(reads, i) = 1 <=> i \in DOMAIN cache
    /\ \A i \in DOMAIN cache : cache[i].obj = << i, 1 >> /\ cache[i].item = i
    /\ (ret.op = "getitem" /\ ret.exc = "") =>
           (ret.entry = cache[ret.index] /\ ret.entry.obj = << ret.index, 1 >>)

\* C5: CachedFashionMNIST memoizes per index.  For indices the underlying
\* dataset has (spec section 3: the index must be within bounds), after any
\* sequence of __getitem__ calls the keys of the cache are the indices
\* requested so far, the underlying dataset was read and the device
\* transfer done at most once per index, every __getitem__(i) that returns
\* returns the list object made by the first call for i, and no entry is
\* ever removed or replaced.
C5_Memoizes ==
    /\ []C5_CacheState
    /\ [][\A i \in DOMAIN cache : i \in DOMAIN cache' /\ cache'[i] = cache[i]]_vars

\* a second call for an index whose transfer failed the first time is
\* served from the cache
C5_Witness ==
    /\ cuda
    /\ ret.op = "getitem"
    /\ ret.exc = ""
    /\ ret.entry.label = "cpu"
    /\ Cardinality(DOMAIN cache) >= 2

ConfusionWritten == {f \in WrittenNow : f[1] = "confusion_%s.png"}

\* C7: testing_mode suppresses the plotting only.  With testing_mode no
\* image file is written; without it a main that returns has written the
\* confusion image exactly once; in both modes a main that returns has run
\* the three training stages and printed the final DEC accuracy.
\* CachedFashionMNIST.__len__ is 128 under testing_mode whatever the size of
\* the underlying dataset (and that size otherwise), while __getitem__
\* serves every index the underlying dataset has.
C7_TestingMode ==
    /\ (status \in {"running", "done", "error"} /\ testing_mode) =>
           WrittenNow \cap ImageFiles = {}
    /\ (status = "done" /\ ~testing_mode) =>
           /\ Cardinality(ConfusionWritten) = 1
           /\ Cardinality({i \in 1..Len(log) : log[i] = "confusion"}) = 1
    /\ status = "done" =>
           /\ InLog("pretrain") /\ InLog("train") /\ InLog("dec")
           /\ \E i \in 1..Len(stdout) : stdout[i] = "Final DEC accuracy"
    /\ ret.op = "len" => ret.n = (IF testing_mode THEN 128 ELSE ds_len)
    /\ (status \in {"running", "done", "error"} /\ testing_mode) =>
           \A i \in requested : i < 128
    /\ (ret.op = "getitem" /\ ret.index < ds_len) =>
           /\ ret.exc # "IndexError"
           /\ ret.exc = "" => ret.entry.item = ret.index

\* a run under testing_mode on a dataset of 129 items returns with the
\* items below 128 fetched and no file written
C7_Witness ==
    /\ status = "done"
    /\ testing_mode
    /\ script = "fashion_mnist"
    /\ ds_len = TestingLen + 1
    /\ ret.op = "getitem"
    /\ DOMAIN cache = 0..MaxIndex
    /\ WrittenNow = {}

\* --------------------------------------------------------------------- C6
\* C6 as stated: __len__ is the number of labels; __getitem__(idx) for
\* 0 <= idx < number of labels returns (features[idx], labels[idx]); no call
\* changes the object.
C6_Original ==
    /\ rd_ret.op = "len" =>
           (rd_ret.exc = "" /\ rd_ret.n = NumLabels(rd_args.labels))
    /\ (rd_ret.op = "getitem" /\ rd_ret.idx < NumLabels(rd_args.labels)) =>
           /\ rd_ret.exc \in {"", LibraryError}
           /\ rd_ret.exc = "" =>
                  /\ rd_ret.feature.value = rd_args.features.data[rd_ret.idx + 1]
                  /\ rd_ret.label.value = rd_args.labels.data[rd_ret.idx + 1]
    /\ rd = Construct(rd_args)

\* what holds of the code: the claim for every dataset of two or more
\* labels, and for reuters21578's class for every dataset
C6_TwoOrMore ==
    (NumLabels(rd_args.labels) >= 2 \/ rd_args.variant = "reuters21578")
        => C6_Original

C6_Witness ==
    /\ rd_ret.op = "getitem"
    /\ rd_ret.idx = 1
    /\ rd_ret.exc = ""
    /\ rd_args.variant = "reuters_filtered"
    /\ rd_args.labels.shape = << 2, 1 >>
    /\ rd_ret.label.value = 1
    /\ rd_args.labels.data[1] = 0

\* --------------------------------------------------------------------- C8
Score(i) == q[i + 1][ColumnOf(target_cluster)]

Selected == {top_indices[k] : k \in 1..Len(top_indices)}

Rows == 0..(Len(q) - 1)

\* C8: for a score matrix of N rows the top-k step selects min(10, N)
\* pairwise distinct row indices, every selected row scoring at least as
\* much for target_cluster as every row not selected, listed in
\* non-decreasing score order, each printed with its own score.
C8_TopTen ==
    top_state = "done" =>
        /\ Len(top_indices) = (IF Len(q) < 10 THEN Len(q) ELSE 10)
        /\ Selected \subseteq Rows
        /\ Cardinality(Selected) = Len(top_indices)
        /\ \A i \in Selected : \A j \in Rows \ Selected : Score(i) >= Score(j)
        /\ \A k \in 1..(Len(top_indices) - 1) :
               Score(top_indices[k]) <= Score(top_indices[k + 1])
        /\ Len(top_printed) = Len(top_indices)
        /\ \A k \in 1..Len(top_indices) :
               top_printed[k] = << top_indices[k], Score(top_indices[k]) >>

\* eleven rows, so that one is left out, with a tie between the row left
\* out and a row selected
C8_Witness ==
    /\ top_state = "done"
    /\ Len(q) = 11
    /\ Len(top_indices) = 10
    /\ \E i \in Selected : \E j \in Rows \ Selected : Score(i) = Score(j)
    /\ \E i \in Selected : \E j \in Selected : Score(i) < Score(j)

\* --------------------------------------------------------------------- C9
RowSumsToOne(row) ==
    /\ \A j \in 1..Len(row) : ~row[j].nan
    /\ \A j \in 1..Len(row) : row[j].den = row[1].den
    /\ SeqSum([j \in 1..Len(row) |-> row[j].num]) = row[1].den

\* C9 as stated: every row of the confusion matrix, one per label occurring
\* in actual or in the reassigned predictions, has a non-zero total, and
\* every normalised row sums to 1.
C9_Original ==
    conf_state = "done" =>
        \A i \in 1..Len(confusion.labels) :
            /\ RowTotals(confusion)[i] # 0
            /\ RowSumsToOne(normalised_confusion[i])

\* what holds of the code: the rows of the labels that occur in actual
\* have a non-zero total and sum to 1 once normalised
C9_ActualRows ==
    conf_state = "done" =>
        \A i \in 1..Len(confusion.labels) :
            confusion.labels[i] \in Range(actual) =>
                /\ RowTotals(confusion)[i] # 0
                /\ RowSumsToOne(normalised_confusion[i])

\* -------------------------------------------------------------------- C10
\* the feature row of a text within the whole corpus
RowOf(text) ==
    LET corpus == AllTexts(dataset)
    IN [t \in UNION Range(corpus) |->
           << IF t \in text THEN 1 ELSE 0,
              Cardinality({i \in 1..Len(corpus) : t \in corpus[i]}) >>]

\* the dataset holds exactly the given items, in their order, row i paired
\* with label i
HoldsPart(ds, part) ==
    /\ Len(ds.features.data) = Len(part)
    /\ Len(ds.labels.data) = Len(part)
    /\ \A i \in 1..Len(part) :
           /\ ds.features.data[i] = RowOf(part[i].text)
           /\ ds.labels.data[i] = part[i].label

\* C10: splitting the concatenated rows and labels at
\* train_size = len(dataset['train']) restores the partition: ds_train holds
\* the rows of the train part in their order, ds_val those of the test
\* part, no row is lost or in both, and in each dataset row i is paired with
\* label i.
C10_SplitRestores ==
    split_state = "done" =>
        /\ HoldsPart(ds_train, dataset.train)
        /\ HoldsPart(ds_val, dataset.test)
        /\ Len(ds_train.features.data) + Len(ds_val.features.data)
               = Len(dataset.train) + Len(dataset.test)

C10_Witness ==
    /\ split_state = "done"
    /\ Len(dataset.train) = 2
    /\ Len(dataset.test) = 1
    /\ dataset.train[1].text # dataset.train[2].text
    /\ dataset.train[2].label # dataset.test[1].label
    /\ ds_val.labels.data = << dataset.test[1].label >>

\* -------------------------------------------------------------------- C11
\* the 0-based dataset indices predicted as cluster c
Members(c) == {i \in 0..(Len(grid_predicted) - 1) : grid_predicted[i + 1] = c}

\* the number of members of cluster c with a smaller index than i
Rank(c, i) == Cardinality({j \in Members(c) : j < i})

\* the images the grid is to show: member number idx (from 0) of cluster c,
\* for idx below ten, at position c * 10 + idx + 1
Expected ==
    {[pos |-> c * 10 + Rank(c, i) + 1, image |-> i, cluster |-> c] :
        c \in 0..9, i \in 0..(Len(grid_predicted) - 1)}

Placed == {grid_calls[k] : k \in 1..Len(grid_calls)}

\* C11: for every vector of predicted labels no subplot call is refused for
\* its position, and in the grid that is drawn each cluster 0..9 contributes
\* its first ten members in increasing index order and no more, member idx
\* of cluster c at position c * 10 + idx + 1; every position lies in
\* 1..100, no two images share a position, and a cluster without members
\* contributes nothing.
C11_GridPlacement ==
    /\ grid_state # "subplot"
    /\ \A k \in 1..Len(grid_calls) : ValidPosition(grid_calls[k].pos)
    /\ grid_state = "done" =>
        /\ Placed = {e \in Expected :
                        e.image \in Members(e.cluster) /\ Rank(e.cluster, e.image) < 10}
        /\ \A k \in 1..Len(grid_calls) : grid_calls[k].pos \in 1..100
        /\ \A k, l \in 1..Len(grid_calls) :
               grid_calls[k].pos = grid_calls[l].pos => k = l
        /\ \A c \in 0..9 :
               /\ Cardinality({k \in 1..Len(grid_calls) :
                                   grid_calls[k].cluster = c}) <= 10
               /\ Members(c) = {} =>
                      ~ \E k \in 1..Len(grid_calls) : grid_calls[k].cluster = c
        /\ \A k, l \in 1..Len(grid_calls) :
               (k < l /\ grid_calls[k].cluster = grid_calls[l].cluster) =>
                   grid_calls[k].image < grid_calls[l].image

\* cluster 0 has eleven members, so one is left out, and cluster 9 has none
C11_Witness ==
    /\ grid_state = "done"
    /\ Cardinality(Members(0)) = 11
    /\ Members(9) = {}
    /\ Len(grid_calls) = 10
    /\ grid_calls[10] = [pos |-> 10, image |-> 9, cluster |-> 0]

\* -------------------------------------------------------------------- C12
\* C12: the SummaryWriter is created by the first statement of main; a main
\* that returns has closed it exactly when testing_mode is false, and then
\* close was the last statement, after the image output; with testing_mode
\* main returns with the writer open; after an exception has left main the
\* writer is not closed.
C12_WriterClosed ==
    /\ writer # "none" => (Len(log) >= 1 /\ log[1] = "writer")
    /\ status = "done" => (writer = "closed" <=> ~testing_mode)
    /\ (status = "done" /\ testing_mode) => writer = "open"
    /\ status = "error" => writer # "closed"
    /\ writer = "closed" =>
           /\ ~testing_mode
           /\ log[Len(log)] = "close"
           /\ InLog("confusion")
           /\ ConfusionWritten # {}
           /\ script = "fashion_mnist" =>
                  (InLog("clusters") /\ ClustersFile \in WrittenNow)

C12_Witness ==
    /\ status = "done"
    /\ testing_mode
    /\ script = "reuters21578"
    /\ writer = "open"
    /\ \E r \in finished : r # run

====
